---- MODULE Spec2Model ----
(***************************************************************************)
(* Model of samf/ctree: Root.Run, Root.setup, Root.allWork (api.go) and    *)
(* DNode.work, newNode, TotalLength, Flatten, Errors (nodes.go).           *)
(*                                                                         *)
(* Goroutines: the caller's goroutine, which executes Run and, inside the  *)
(* loop of Run, every call of allWork (api.go:63 calls r.allWork() without *)
(* a go statement), and the anonymous goroutine of api.go:57-59 that sends *)
(* the root node on r.work.                                                *)
(***************************************************************************)
EXTENDS Integers, Sequences, FiniteSets, TLC

\* ---------------------------------------------------------------- bounds
MaxNodes == 4        \* filesystem entries below and including the root
MaxThreads == 1      \* largest Threads value the caller sets
MaxWorkList == 1     \* largest WorkListSize value the caller sets
MaxFail == 2         \* at most this many directories fail to open or list

\* ------------------------------------------------------- program constants
DefaultThreads == 4
DefaultWorkListSize == 1024

Nodes == 1..MaxNodes
RootNode == 1
NilNode == 0

VARIABLES
    \* the filesystem, fixed during one Run
    rootKind,      \* what r.Path names: "dir", "file", "missing"
    fsKind,        \* entry -> "dir" | "file" | "none" (entry absent)
    fsParent,      \* entry -> the directory holding it (0 for the root)
    fsFail,        \* directory -> os.Open or f.Readdir on it returns an error
    \* Root
    Threads, WorkListSize,
    work,          \* r.work: the buffered items of the channel
    stop,          \* r.stop is closed
    pending,       \* r.pending
    wg,            \* r.wg counter
    \* DNode fields
    children, leaves, err,
    \* the caller's goroutine
    runPc,         \* position in Run / allWork / DNode.work
    i,             \* loop variable of Run's worker loop
    dn,            \* allWork's dn: the node it received
    stack,         \* call stack of DNode.work: frames [dn, idx, ph]
    retDn, retErr, \* what Run returned
    \* the seeding goroutine (api.go:57-59)
    seedPc,
    \* history
    workCount,     \* node -> how many times DNode.work began on it
    sendCount,     \* node -> how many times it was sent on r.work
    recvCount,     \* node -> how many times it was received from r.work
    syncCount,     \* node -> how many times the default branch recursed into it
    incd,          \* nodes whose increment of pending has been applied
    decd,          \* nodes whose decrement of pending has been applied
    closeCount,    \* executions of close(r.stop)
    started,       \* worker loops started
    exited,        \* worker loops that returned
    peakLen        \* largest number of buffered items seen

fsVars == <<rootKind, fsKind, fsParent, fsFail>>
rootVars == <<Threads, WorkListSize, work, stop, pending, wg>>
nodeVars == <<children, leaves, err>>
mainVars == <<runPc, i, dn, stack, retDn, retErr>>
histVars == <<workCount, sendCount, recvCount, syncCount, incd, decd,
              closeCount, started, exited, peakLen>>
vars == <<fsVars, rootVars, nodeVars, mainVars, seedPc, histVars>>

\* ------------------------------------------------------------ filesystem
Max2(a, b) == IF a > b THEN a ELSE b

RECURSIVE SortedSeq(_)
SortedSeq(S) ==
    IF S = {} THEN <<>>
    ELSE LET m == CHOOSE x \in S : \A y \in S : x <= y
         IN <<m>> \o SortedSeq(S \ {m})

\* f.Readdir(0) on directory d: its entries, in the filesystem's fixed order
Readdir(d) == SortedSeq({n \in Nodes : fsKind[n] # "none" /\ fsParent[n] = d})

\* (*fi).IsDir()
IsDir(n) == fsKind[n] = "dir"

KindOK(k) ==
    /\ k[RootNode] = "dir"
    /\ \A n \in Nodes : (n > 1 /\ k[n] = "none") =>
           \A m \in Nodes : m > n => k[m] = "none"

ParentOK(k, p) ==
    /\ p[RootNode] = 0
    /\ \A n \in Nodes \ {RootNode} :
          IF k[n] = "none" THEN p[n] = 0
          ELSE p[n] \in 1..(n - 1) /\ k[p[n]] = "dir"

FailOK(k, f) ==
    /\ \A n \in Nodes : k[n] # "dir" => ~f[n]
    /\ Cardinality({n \in Nodes : f[n]}) <= MaxFail

\* ------------------------------------------------------------------ Init
Init ==
    /\ rootKind \in {"dir", "file", "missing"}
    /\ fsKind \in {k \in [Nodes -> {"dir", "file", "none"}] : KindOK(k)}
    /\ fsParent \in {p \in [Nodes -> 0..MaxNodes] : ParentOK(fsKind, p)}
    /\ fsFail \in {f \in [Nodes -> BOOLEAN] : FailOK(fsKind, f)}
    \* a Path that is no directory is run against one filesystem only
    /\ rootKind # "dir" => (\A n \in Nodes : n > 1 => fsKind[n] = "none")
                            /\ ~fsFail[RootNode]
    \* negative settings are normalised before the path is looked at: they
    \* are tried on the runs that end at the path check
    /\ Threads \in (IF rootKind = "dir" THEN 0 ELSE -MaxThreads)..MaxThreads
    /\ WorkListSize \in (IF rootKind = "dir" THEN -1 ELSE -2)..MaxWorkList
    /\ work = <<>>
    /\ stop = FALSE
    /\ pending = 0
    /\ wg = 0
    /\ children = [n \in Nodes |-> <<>>]
    /\ leaves = [n \in Nodes |-> <<>>]
    /\ err = [n \in Nodes |-> "nil"]
    /\ runPc = "setup"
    /\ i = 0
    /\ dn = NilNode
    /\ stack = <<>>
    /\ retDn = NilNode
    /\ retErr = "nil"
    /\ seedPc = "idle"
    /\ workCount = [n \in Nodes |-> 0]
    /\ sendCount = [n \in Nodes |-> 0]
    /\ recvCount = [n \in Nodes |-> 0]
    /\ syncCount = [n \in Nodes |-> 0]
    /\ incd = {}
    /\ decd = {}
    /\ closeCount = 0
    /\ started = 0
    /\ exited = 0
    /\ peakLen = 0

\* ------------------------------------------------------- Root.setup (api.go)
setupThreadsNegOnly(t) == IF t < 0 THEN DefaultThreads ELSE t

\* if r.Threads <= 0 { r.Threads = DefaultThreads }
setupThreads(t) == IF t <= 0 THEN DefaultThreads ELSE t

\* if r.WorkListSize < 0 { r.WorkListSize = DefaultWorkListSize }
setupWorkListSize(s) == IF s < 0 THEN DefaultWorkListSize ELSE s

setupPendingZero == 1 - 1

\* r.pending = 1
setupPending == 1

setup ==
    /\ runPc = "setup"
    /\ Threads' = setupThreads(Threads)
    /\ WorkListSize' = setupWorkListSize(WorkListSize)
    /\ work' = <<>>
    /\ stop' = FALSE
    /\ pending' = setupPending
    /\ runPc' = "stat"
    /\ UNCHANGED <<fsVars, wg, nodeVars, i, dn, stack, retDn, retErr, seedPc,
                   histVars>>

\* ---------------------------------------------------------- Root.Run (api.go)
\* os.Stat(r.Path) returns an error
StatFails == rootKind = "missing"

NotDirNever == FALSE

\* !fi.IsDir()
NotDir == rootKind = "file"

\* os.Stat, the IsDir test and newNode for the root (api.go:46-56)
Run_stat ==
    /\ runPc = "stat"
    /\ IF StatFails
       THEN /\ retDn' = NilNode /\ retErr' = "stat" /\ runPc' = "returned"
       ELSE IF NotDir
       THEN /\ retDn' = NilNode /\ retErr' = "notdir" /\ runPc' = "returned"
       ELSE /\ runPc' = "go" /\ UNCHANGED <<retDn, retErr>>
    /\ UNCHANGED <<fsVars, rootVars, nodeVars, i, dn, stack, seedPc, histVars>>

\* go func() { r.work <- dn }() (api.go:57-59), then i := 0
Run_go ==
    /\ runPc = "go"
    /\ seedPc' = "send"
    /\ i' = 0
    /\ runPc' = "loop"
    /\ UNCHANGED <<fsVars, rootVars, nodeVars, dn, stack, retDn, retErr, histVars>>

\* i < r.Threads: r.wg.Add(1); r.allWork() -- a plain call (api.go:61-63)
Run_loop ==
    /\ runPc = "loop"
    /\ i < Threads
    /\ wg' = wg + 1
    /\ started' = started + 1
    /\ runPc' = "select"
    /\ UNCHANGED <<fsVars, Threads, WorkListSize, work, stop, pending, nodeVars,
                   i, dn, stack, retDn, retErr, seedPc, workCount, sendCount,
                   recvCount, syncCount, incd, decd, closeCount, exited, peakLen>>

Run_loopEnd ==
    /\ runPc = "loop"
    /\ ~(i < Threads)
    /\ runPc' = "wait"
    /\ UNCHANGED <<fsVars, rootVars, nodeVars, i, dn, stack, retDn, retErr,
                   seedPc, histVars>>

\* r.wg.Wait(); return dn, nil (api.go:66-68)
Run_wait ==
    /\ runPc = "wait"
    /\ wg = 0
    /\ retDn' = RootNode
    /\ retErr' = "nil"
    /\ runPc' = "returned"
    /\ UNCHANGED <<fsVars, rootVars, nodeVars, i, dn, stack, seedPc, histVars>>

SeedAgain == "send"

\* the seeding goroutine after its one send: the function returns
SeedAfterSend == "done"

\* the seeding goroutine's r.work <- dn into the buffer
seed_send ==
    /\ seedPc = "send"
    /\ Len(work) < WorkListSize
    /\ work' = Append(work, RootNode)
    /\ sendCount' = [sendCount EXCEPT ![RootNode] = @ + 1]
    /\ peakLen' = Max2(peakLen, Len(work) + 1)
    /\ seedPc' = SeedAfterSend
    /\ UNCHANGED <<fsVars, Threads, WorkListSize, stop, pending, wg, nodeVars,
                   mainVars, workCount, recvCount, syncCount, incd, decd,
                   closeCount, started, exited>>

\* ------------------------------------------------------ Root.allWork (api.go)
FrameSkipFirst(d) == [dn |-> d, idx |-> 2, ph |-> "open"]

\* entry of dn.work(...): nothing opened yet, the range loop at its first child
Frame(d) == [dn |-> d, idx |-> 1, ph |-> "open"]

Peek(q) == q

\* the channel after a receive took its first item
Dequeue(q) == Tail(q)

\* return from allWork: the deferred r.wg.Done(), then Run's i++
allWorkReturn ==
    /\ wg' = wg - 1
    /\ exited' = exited + 1
    /\ i' = i + 1
    /\ runPc' = "loop"

\* case <-r.stop: return
allWork_stop ==
    /\ runPc = "select"
    /\ stop
    /\ allWorkReturn
    /\ UNCHANGED <<fsVars, Threads, WorkListSize, work, stop, pending, nodeVars,
                   dn, stack, retDn, retErr, seedPc, workCount, sendCount,
                   recvCount, syncCount, incd, decd, closeCount, started, peakLen>>

\* case dn = <-r.work, from the buffer; then the call dn.work(...)
allWork_recv ==
    /\ runPc = "select"
    /\ Len(work) > 0
    /\ dn' = Head(work)
    /\ work' = Dequeue(work)
    /\ recvCount' = [recvCount EXCEPT ![Head(work)] = @ + 1]
    /\ stack' = <<Frame(Head(work))>>
    /\ runPc' = "work"
    /\ UNCHANGED <<fsVars, Threads, WorkListSize, stop, pending, wg, nodeVars,
                   i, retDn, retErr, seedPc, workCount, sendCount, syncCount,
                   incd, decd, closeCount, started, exited, peakLen>>

\* case dn = <-r.work, handed over directly by the sender blocked in r.work <- dn
allWork_recvSync ==
    /\ runPc = "select"
    /\ Len(work) = 0
    /\ seedPc = "send"
    /\ seedPc' = SeedAfterSend
    /\ dn' = RootNode
    /\ sendCount' = [sendCount EXCEPT ![RootNode] = @ + 1]
    /\ recvCount' = [recvCount EXCEPT ![RootNode] = @ + 1]
    /\ stack' = <<Frame(RootNode)>>
    /\ runPc' = "work"
    /\ UNCHANGED <<fsVars, rootVars, nodeVars, i, retDn, retErr, workCount,
                   syncCount, incd, decd, closeCount, started, exited, peakLen>>

BelowZero(p) == p < 0

BelowTwo(p) == p < 2

\* atomic.AddInt32(&r.pending, -1) < 1
BelowOne(p) == p < 1

allWork_dec ==
    /\ runPc = "dec"
    /\ pending' = pending - 1
    /\ decd' = decd \cup {dn}
    /\ runPc' = IF BelowOne(pending - 1) THEN "close" ELSE "select"
    /\ UNCHANGED <<fsVars, Threads, WorkListSize, work, stop, wg, nodeVars, i,
                   dn, stack, retDn, retErr, seedPc, workCount, sendCount,
                   recvCount, syncCount, incd, closeCount, started, exited,
                   peakLen>>

\* close(r.stop); return -- closing a closed channel panics
allWork_close ==
    /\ runPc = "close"
    /\ closeCount' = closeCount + 1
    /\ IF stop
       THEN /\ runPc' = "panic"
            /\ UNCHANGED <<stop, wg, exited, i>>
       ELSE /\ stop' = TRUE
            /\ allWorkReturn
    /\ UNCHANGED <<fsVars, Threads, WorkListSize, work, pending, nodeVars, dn,
                   stack, retDn, retErr, seedPc, workCount, sendCount, recvCount,
                   syncCount, incd, decd, started, peakLen>>

\* ------------------------------------------------------ DNode.work (nodes.go)
Top == stack[Len(stack)]

SetTop(f) == [stack EXCEPT ![Len(stack)] = f]

\* newNode: a DNode for a directory, a Leaf for anything else
newNode(n) == IF IsDir(n) THEN "DNode" ELSE "Leaf"

IsDNode(n) == newNode(n) = "DNode"

IsLeaf(n) == newNode(n) = "Leaf"

\* return from dn.work: back in the caller's loop, or back in allWork
workReturn ==
    /\ stack' = SubSeq(stack, 1, Len(stack) - 1)
    /\ runPc' = IF Len(stack) = 1 THEN "dec" ELSE runPc

\* os.Open, f.Readdir(0) and the classification loop (nodes.go:128-151);
\* both failures set dn.err and return, the error value itself is not modelled
work_open ==
    /\ runPc = "work"
    /\ Top.ph = "open"
    /\ workCount' = [workCount EXCEPT ![Top.dn] = @ + 1]
    /\ IF fsFail[Top.dn]
       THEN /\ err' = [err EXCEPT ![Top.dn] = "err"]
            /\ workReturn
            /\ UNCHANGED <<children, leaves>>
       ELSE /\ children' = [children EXCEPT
                   ![Top.dn] = @ \o SelectSeq(Readdir(Top.dn), IsDNode)]
            /\ leaves' = [leaves EXCEPT
                   ![Top.dn] = @ \o SelectSeq(Readdir(Top.dn), IsLeaf)]
            /\ stack' = SetTop([Top EXCEPT !.ph = "range"])
            /\ UNCHANGED <<err, runPc>>
    /\ UNCHANGED <<fsVars, rootVars, i, dn, retDn, retErr, seedPc, sendCount,
                   recvCount, syncCount, incd, decd, closeCount, started, exited,
                   peakLen>>

RecurseSkip(c) == SetTop([Top EXCEPT !.idx = @ + 1])

\* default: dn.work(work, stop, pending) on the child, then the next child
Recurse(c) == Append(SetTop([Top EXCEPT !.idx = @ + 1]), Frame(c))

\* a receiver is blocked in <-r.work: only allWork's select receives
ReceiverWaiting == runPc = "select"

CanSendAlways == TRUE

\* work <- dn can proceed without blocking
CanSend == Len(work) < WorkListSize \/ ReceiverWaiting

SelectCasesNoDefault ==
    (IF stop THEN {"stop"} ELSE {}) \cup (IF CanSend THEN {"send"} ELSE {})

\* the cases of the select of nodes.go:154-161 that are ready; default when none
SelectCases ==
    LET ready == (IF stop THEN {"stop"} ELSE {})
                 \cup (IF CanSend THEN {"send"} ELSE {})
    IN IF ready = {} THEN {"default"} ELSE ready

\* one iteration of for _, dn := range dn.children { select {...} }
work_select ==
    /\ runPc = "work"
    /\ Top.ph = "range"
    /\ Top.idx <= Len(children[Top.dn])
    /\ LET c == children[Top.dn][Top.idx] IN
       \E cs \in SelectCases :
          IF cs = "stop"
          THEN /\ workReturn
               /\ UNCHANGED <<work, sendCount, syncCount, peakLen>>
          ELSE IF cs = "send"
          THEN /\ work' = Append(work, c)
               /\ sendCount' = [sendCount EXCEPT ![c] = @ + 1]
               /\ peakLen' = Max2(peakLen, Len(work) + 1)
               /\ stack' = SetTop([Top EXCEPT !.ph = "inc"])
               /\ UNCHANGED <<runPc, syncCount>>
          ELSE /\ syncCount' = [syncCount EXCEPT ![c] = @ + 1]
               /\ stack' = Recurse(c)
               /\ UNCHANGED <<runPc, work, sendCount, peakLen>>
    /\ UNCHANGED <<fsVars, Threads, WorkListSize, stop, pending, wg, nodeVars,
                   i, dn, retDn, retErr, seedPc, workCount, recvCount, incd,
                   decd, closeCount, started, exited>>

NotIncremented(p) == p

\* the value atomic.AddInt32(pending, 1) leaves in the counter
Incremented(p) == p + 1

\* atomic.AddInt32(pending, 1), after the send (nodes.go:158)
work_inc ==
    /\ runPc = "work"
    /\ Top.ph = "inc"
    /\ pending' = Incremented(pending)
    /\ incd' = incd \cup {children[Top.dn][Top.idx]}
    /\ stack' = SetTop([Top EXCEPT !.idx = @ + 1, !.ph = "range"])
    /\ UNCHANGED <<fsVars, Threads, WorkListSize, work, stop, wg, nodeVars,
                   runPc, i, dn, retDn, retErr, seedPc, workCount, sendCount,
                   recvCount, syncCount, decd, closeCount, started, exited,
                   peakLen>>

\* the range loop is over: dn.work returns
work_return ==
    /\ runPc = "work"
    /\ Top.ph = "range"
    /\ Top.idx > Len(children[Top.dn])
    /\ workReturn
    /\ UNCHANGED <<fsVars, rootVars, nodeVars, i, dn, retDn, retErr, seedPc,
                   histVars>>

\* ----------------------------------------------- tree queries (nodes.go)
RECURSIVE SumTotal(_, _)
RECURSIVE TotalLength(_)
TotalLengthNoSelf(d) == Len(leaves[d]) + SumTotal(children[d], 1)

\* l := len(dn.leaves) + 1; l += child.TotalLength() for each child
TotalLength(d) == Len(leaves[d]) + 1 + SumTotal(children[d], 1)

SumTotal(cs, k) ==
    IF k > Len(cs) THEN 0 ELSE TotalLength(cs[k]) + SumTotal(cs, k + 1)

RECURSIVE FlattenAll(_, _)
RECURSIVE Flatten(_)
FlattenLeavesLast(d) == <<d>> \o FlattenAll(children[d], 1) \o leaves[d]

\* nodes[0] = dn, then the leaves, then append(nodes, child.Flatten()...)
Flatten(d) == <<d>> \o leaves[d] \o FlattenAll(children[d], 1)

FlattenAll(cs, k) ==
    IF k > Len(cs) THEN <<>> ELSE Flatten(cs[k]) \o FlattenAll(cs, k + 1)

RECURSIVE ErrorsAll(_, _)
RECURSIVE Errors(_)
ErrorsSkipOwn(d) == ErrorsAll(children[d], 1)

ErrorsOwnOnly(d) == IF err[d] # "nil" THEN <<d>> ELSE <<>>

\* dn.err if set, then child.Errors() for each child; an error is named by
\* the directory it was recorded on
Errors(d) ==
    (IF err[d] # "nil" THEN <<d>> ELSE <<>>) \o ErrorsAll(children[d], 1)

ErrorsAll(cs, k) ==
    IF k > Len(cs) THEN <<>> ELSE Errors(cs[k]) \o ErrorsAll(cs, k + 1)

\* ---------------------------------------------------------- specification
Main ==
    \/ setup \/ Run_stat \/ Run_go \/ Run_loop \/ Run_loopEnd \/ Run_wait
    \/ allWork_stop \/ allWork_recv \/ allWork_recvSync
    \/ allWork_dec \/ allWork_close
    \/ work_open \/ work_select \/ work_inc \/ work_return

Seeder == seed_send

Next == Main \/ Seeder

Spec == Init /\ [][Next]_vars

\* Go's scheduler runs every goroutine that can take a step
FairSpec == Spec /\ WF_vars(Main) /\ WF_vars(Seeder)

\* ------------------------------------------------------------------ claims
Returned == runPc = "returned"

\* C1: a Run on a valid directory eventually returns, with the stop signal
\* broadcast, every worker loop exited and the wait-group back at zero; and
\* no state before the return is without a next step.
C1_RunTerminates ==
    /\ (rootKind = "dir") =>
          <>(Returned /\ stop /\ wg = 0 /\ exited = Threads /\ retDn = RootNode)
    /\ [](~Returned => ENABLED Next)

C1_Witness ==
    /\ Returned /\ retDn = RootNode /\ WorkListSize = 0 /\ Threads > 1
    /\ Cardinality({n \in Nodes : workCount[n] > 0}) >= 3

\* the elements of a sequence
Range(q) == {q[k] : k \in 1..Len(q)}

\* the DirectoryNodes of the tree under d
RECURSIVE DNodesAll(_, _)
RECURSIVE DNodesOf(_)
DNodesOf(d) == {d} \cup DNodesAll(children[d], 1)

DNodesAll(cs, k) ==
    IF k > Len(cs) THEN {} ELSE DNodesOf(cs[k]) \cup DNodesAll(cs, k + 1)

\* what listing directory d yields: nothing when it cannot be opened or read
ListedDirs(d) == IF fsFail[d] THEN <<>> ELSE SelectSeq(Readdir(d), IsDir)

ListedLeaves(d) ==
    IF fsFail[d] THEN <<>>
    ELSE SortedSeq({n \in Nodes : fsKind[n] = "file" /\ fsParent[n] = d})

\* the tree a plain sequential recursive listing builds
RECURSIVE SeqDirsAll(_, _)
RECURSIVE SeqDirs(_)
SeqDirs(d) == {d} \cup SeqDirsAll(ListedDirs(d), 1)

SeqDirsAll(cs, k) ==
    IF k > Len(cs) THEN {} ELSE SeqDirs(cs[k]) \cup SeqDirsAll(cs, k + 1)

SeqPaths == SeqDirs(RootNode) \cup UNION {Range(ListedLeaves(d)) : d \in SeqDirs(RootNode)}

ReturnedTree == Returned /\ retDn = RootNode

\* C2: when Run returns a tree, the traversal step has run on every
\* DirectoryNode of it, and a directory whose listing has entries is left
\* without them only if its err is set.
C2_AllListedAtReturn ==
    ReturnedTree =>
        \A d \in DNodesOf(RootNode) :
            /\ workCount[d] >= 1
            /\ (err[d] = "nil") =>
                  /\ children[d] = SelectSeq(Readdir(d), IsDir)
                  /\ Len(children[d]) + Len(leaves[d]) = Len(Readdir(d))

C2_Witness ==
    /\ ReturnedTree
    /\ Cardinality(DNodesOf(RootNode)) >= 3
    /\ \E d \in DNodesOf(RootNode) : syncCount[d] = 1
    /\ \E d \in DNodesOf(RootNode) : d # RootNode /\ recvCount[d] = 1

\* C3: pending is at least 1 whenever a DirectoryNode is in the work queue,
\* is being handed off, or has its traversal step (or the decrement that
\* ends it) still to finish.
C3_PendingCoversWork ==
    (work # <<>> \/ seedPc = "send" \/ runPc \in {"work", "dec"}) => pending >= 1

C3_Witness ==
    /\ runPc = "work" /\ Len(stack) >= 2 /\ Len(work) >= 1 /\ pending >= 2

\* C4: close(r.stop) is executed exactly once in a run that returns a tree,
\* never a second time, and closing never panics.
C4_StopClosedOnce ==
    /\ closeCount <= 1
    /\ runPc # "panic"
    /\ stop <=> closeCount = 1
    /\ ReturnedTree => closeCount = 1

C4_Witness ==
    /\ ReturnedTree /\ closeCount = 1 /\ Threads > 1
    /\ \E d \in Nodes : d # RootNode /\ recvCount[d] = 1

\* C5: the traversal step runs at most once on each DirectoryNode: a child is
\* sent on the queue or handled by the default branch, never both, and a
\* node that was sent is received at most once.
C5_WorkAtMostOnce ==
    \A d \in Nodes :
        /\ workCount[d] <= 1
        /\ sendCount[d] + syncCount[d] <= 1
        /\ recvCount[d] <= sendCount[d]
        /\ workCount[d] <= recvCount[d] + syncCount[d]

C5_Witness ==
    /\ ReturnedTree
    /\ \E d \in Nodes : d # RootNode /\ recvCount[d] = 1 /\ workCount[d] = 1
    /\ \E d \in Nodes : syncCount[d] = 1 /\ workCount[d] = 1

\* C6: whatever Threads and WorkListSize are, the returned tree is the tree
\* of the sequential recursive listing: same children and leaves at every
\* directory, same set of node paths, same TotalLength.
C6_SameTreeEveryConfig ==
    ReturnedTree =>
        /\ \A d \in SeqDirs(RootNode) :
              children[d] = ListedDirs(d) /\ leaves[d] = ListedLeaves(d)
        /\ DNodesOf(RootNode) = SeqDirs(RootNode)
        /\ Range(Flatten(RootNode)) = SeqPaths
        /\ TotalLength(RootNode) = Cardinality(SeqPaths)

C6_Witness ==
    /\ ReturnedTree /\ Threads = DefaultThreads /\ WorkListSize = 0
    /\ TotalLength(RootNode) = MaxNodes
    /\ Cardinality(DNodesOf(RootNode)) >= 3

\* the directories of the returned tree whose open or listing failed
FailedDirs == {d \in DNodesOf(RootNode) : fsFail[d]}

C7_AtReturn ==
    (Returned /\ rootKind = "dir") =>
        /\ retDn = RootNode /\ retErr = "nil"
        /\ pending = 0
        /\ \A d \in Nodes : err[d] # "nil" <=> d \in FailedDirs
        /\ \A d \in FailedDirs : children[d] = <<>> /\ leaves[d] = <<>>
        /\ \A d \in SeqDirs(RootNode) \ FailedDirs :
              /\ workCount[d] = 1
              /\ children[d] = SelectSeq(Readdir(d), IsDir)
              /\ leaves[d] = SelectSeq(Readdir(d), IsLeaf)
        /\ Range(Errors(RootNode)) = FailedDirs
        /\ Len(Errors(RootNode)) = Cardinality(FailedDirs)

\* C7: a directory that fails to open or list gets the error, keeps no
\* children and no leaves; every other directory outside a failed subtree is
\* fully listed; the counter is back at zero and Run returns the root with a
\* nil error; Errors() holds exactly one error per failing directory; and the
\* run with failing directories does return.
C7_FailureIsolated ==
    /\ []C7_AtReturn
    /\ (rootKind = "dir" /\ \E d \in Nodes : fsFail[d]) => <>Returned

\* a non-root directory d with an entry below it fails, and its later sibling
\* e is still listed by its own traversal step
C7_Witness ==
    /\ ReturnedTree
    /\ \E d \in FailedDirs : \E e \in DNodesOf(RootNode) :
          /\ fsParent[d] = RootNode /\ fsParent[e] = RootNode /\ d < e
          /\ \E n \in Nodes : fsKind[n] # "none" /\ fsParent[n] = d
          /\ err[e] = "nil" /\ workCount[e] = 1
          /\ Errors(RootNode) = <<d>>

\* C8: a root path that cannot be stat'ed or is no directory makes Run return
\* (nil, error) with the root never seeded and no worker started; and Run
\* returns (tree, nil) or (nil, error), never a tree with an error.
C8_RootValidation ==
    /\ (rootKind # "dir") =>
          /\ seedPc = "idle" /\ started = 0 /\ work = <<>>
          /\ \A d \in Nodes : workCount[d] = 0
          /\ Returned => (retDn = NilNode /\ retErr # "nil")
    /\ Returned =>
          \/ retDn = RootNode /\ retErr = "nil"
          \/ retDn = NilNode /\ retErr # "nil"
    /\ (Returned /\ rootKind = "missing") => retErr = "stat"
    /\ (Returned /\ rootKind = "file") => retErr = "notdir"

C8_Witness == Returned /\ rootKind = "file" /\ retDn = NilNode /\ retErr = "notdir"

\* C9: the worker loops run as a pool: while one worker loop is running and
\* Run has further worker loops to start, Run can start the next one, so
\* that with two directories queued two workers can each be in a traversal
\* step.
C9_WorkersRunInParallel ==
    (started > exited /\ started < Threads) => ENABLED Run_loop

\* what the code does instead: at most one worker loop is ever running
C9_OneWorkerAtATime == started - exited \in {0, 1}

\* C10: a subdirectory that sits in the work queue, where a worker can
\* dequeue it, already has its increment of pending applied; and a
\* subdirectory's decrement comes after its increment.
C10_IncrementBeforeEnqueue ==
    /\ \A d \in Range(work) : d # RootNode => d \in incd
    /\ \A d \in decd : d # RootNode => d \in incd

\* the ordering that does hold: increment before the same node's decrement
C10_IncrementBeforeDecrement ==
    \A d \in decd : d # RootNode => d \in incd

\* C11 as stated: the root is on the queue (its send is complete) before any
\* worker loop starts.
C11_SeededBeforeWorkers == started > 0 => sendCount[RootNode] = 1

\* C11, amended: the root is sent exactly once per Run; the goroutine that
\* sends it is launched before the first worker loop starts, but the send
\* itself may complete after that, and with WorkListSize = 0 it completes
\* only once a worker loop is receiving.
C11_SeededOnce ==
    /\ sendCount[RootNode] <= 1
    /\ recvCount[RootNode] <= 1
    /\ started > 0 => seedPc # "idle"
    /\ seedPc = "done" <=> sendCount[RootNode] = 1
    /\ ReturnedTree => sendCount[RootNode] = 1 /\ recvCount[RootNode] = 1
    /\ (WorkListSize = 0 /\ sendCount[RootNode] = 1) => started >= 1

C11_Witness ==
    /\ WorkListSize = 0 /\ started = 1 /\ runPc = "work"
    /\ sendCount[RootNode] = 1 /\ seedPc = "done"

\* C12: setup replaces Threads <= 0 by 4 and WorkListSize < 0 by 1024 and
\* keeps every other value, WorkListSize = 0 included, which then buffers
\* nothing; it sets the counter to 1, the stop signal unset, the queue empty.
C12_Normalization ==
    /\ [][runPc = "setup" =>
            /\ Threads' = (IF Threads <= 0 THEN 4 ELSE Threads)
            /\ WorkListSize' = (IF WorkListSize < 0 THEN 1024 ELSE WorkListSize)
            /\ pending' = 1
            /\ stop' = FALSE
            /\ work' = <<>>]_vars
    /\ [][runPc # "setup" =>
            Threads' = Threads /\ WorkListSize' = WorkListSize]_vars
    /\ [](runPc # "setup" => Threads >= 1 /\ WorkListSize >= 0)
    /\ [](WorkListSize = 0 => peakLen = 0 /\ work = <<>>)

C12_Witness ==
    /\ runPc = "returned" /\ retDn = RootNode
    /\ Threads = 4 /\ WorkListSize = 0 /\ exited = 4

\* every node of the tree under d: its DirectoryNodes and their leaves
SubtreeNodes(d) == DNodesOf(d) \cup UNION {Range(leaves[x]) : x \in DNodesOf(d)}

\* C13: for every DirectoryNode n of a returned tree, TotalLength(n) is the
\* length of Flatten(n), and it counts n, n's leaves and the nodes under
\* each child.
C13_TotalLengthIsFlattenLength ==
    ReturnedTree =>
        \A d \in DNodesOf(RootNode) :
            /\ TotalLength(d) = Len(Flatten(d))
            /\ TotalLength(d) = Cardinality(SubtreeNodes(d))

C13_Witness ==
    /\ ReturnedTree
    /\ TotalLength(RootNode) = MaxNodes
    /\ Len(Flatten(RootNode)) = MaxNodes
    /\ \E d \in DNodesOf(RootNode) :
          d # RootNode /\ leaves[d] # <<>> /\ TotalLength(d) = 2
    /\ leaves[RootNode] # <<>>

\* where the nodes of child k of d start in Flatten(d)
RECURSIVE ChildOffset(_, _)
ChildOffset(d, k) ==
    IF k = 1 THEN 1 + Len(leaves[d])
    ELSE ChildOffset(d, k - 1) + Cardinality(SubtreeNodes(children[d][k - 1]))

\* C14: Flatten(n) holds every node reachable from n exactly once: n first,
\* then n's leaves in order, then the flattened nodes of each child in order.
C14_FlattenExactlyOnceInOrder ==
    ReturnedTree =>
        \A d \in DNodesOf(RootNode) :
            LET f == Flatten(d) IN
            /\ Range(f) = SubtreeNodes(d)
            /\ Len(f) = Cardinality(Range(f))
            /\ f[1] = d
            /\ SubSeq(f, 2, 1 + Len(leaves[d])) = leaves[d]
            /\ \A k \in 1..Len(children[d]) :
                  LET c == children[d][k] IN
                  SubSeq(f, ChildOffset(d, k) + 1,
                            ChildOffset(d, k) + Len(Flatten(c))) = Flatten(c)

C14_Witness ==
    /\ ReturnedTree
    /\ Len(children[RootNode]) = 2 /\ Len(leaves[RootNode]) = 1
    /\ Len(Flatten(RootNode)) = 4
    /\ Flatten(RootNode)[2] = leaves[RootNode][1]

\* a DirectoryNode whose err is set
HasErr(n) == IsDir(n) /\ err[n] # "nil"

\* C15: Errors(n) lists the DirectoryNodes of n's subtree whose err is set,
\* n first and then child by child, depth-first and left to right: one entry
\* for each of them and none for a leaf.
C15_ErrorsDepthFirst ==
    ReturnedTree =>
        \A d \in DNodesOf(RootNode) :
            /\ Errors(d) = SelectSeq(Flatten(d), HasErr)
            /\ Len(Errors(d)) = Cardinality({x \in DNodesOf(d) : err[x] # "nil"})
            /\ \A k \in 1..Len(Errors(d)) : IsDir(Errors(d)[k])

C15_Witness ==
    /\ ReturnedTree
    /\ Len(Errors(RootNode)) = 2
    /\ Errors(RootNode)[1] < Errors(RootNode)[2]
    /\ leaves[RootNode] # <<>>

\* a traversal step is at its select with a child still to hand off
AtHandoff ==
    runPc = "work" /\ Top.ph = "range" /\ Top.idx <= Len(children[Top.dn])

\* C16: no traversal step with a child still to hand off finds the stop
\* signal set, so the stop case of its select is never ready; and when the
\* stop signal is set, every child appended to a directory has been listed.
C16_StopBranchUnreachable ==
    /\ AtHandoff => (~stop /\ "stop" \notin SelectCases)
    /\ runPc = "work" => ~stop
    /\ stop => \A d \in Nodes : \A k \in 1..Len(children[d]) :
                  workCount[children[d][k]] = 1

C16_Witness ==
    /\ ReturnedTree /\ stop /\ Threads > 1
    /\ \E d \in Nodes : \E c \in Range(children[d]) : recvCount[c] = 1
    /\ \E d \in Nodes : \E c \in Range(children[d]) :
          syncCount[c] = 1 /\ children[c] # <<>>

\* C17: when the stop signal is broadcast the queue is empty, and from then
\* on nothing is received from the queue and no traversal step begins: a
\* worker loop that finds the stop signal set returns.
C17_NoWorkAfterStop ==
    /\ [](stop => /\ work = <<>>
                  /\ seedPc = "done"
                  /\ runPc \in {"loop", "select", "wait", "returned"})
    /\ [][(~stop /\ stop') => (work = <<>> /\ work' = <<>>)]_vars
    /\ [][stop => /\ workCount' = workCount
                  /\ recvCount' = recvCount
                  /\ sendCount' = sendCount
                  /\ work' = work]_vars
    /\ [][(stop /\ runPc = "select") => (exited' = exited + 1 /\ runPc' = "loop")]_vars

C17_Witness ==
    /\ stop /\ closeCount = 1 /\ exited >= 2 /\ runPc = "select"
    /\ \E d \in Nodes : d # RootNode /\ recvCount[d] = 1

\* C18: a traversal step can always take its next step; a child is handled
\* by the default branch only when the stop signal is unset and the queue
\* cannot accept it, and then the queue and the counter are left alone; a
\* child is sent only into free room and the increment follows; the caller's
\* goroutine is without a step only in allWork's select (or after Run
\* returned).
C18_HandoffNeverBlocks ==
    /\ [](runPc = "work" =>
             ENABLED (work_open \/ work_select \/ work_inc \/ work_return))
    /\ [](AtHandoff => ENABLED work_select)
    /\ [](~(ENABLED Main) => runPc \in {"select", "returned"})
    /\ [][\A c \in Nodes : syncCount'[c] > syncCount[c] =>
              /\ ~stop
              /\ Len(work) >= WorkListSize
              /\ work' = work /\ pending' = pending
              /\ Top' = Frame(c)]_vars
    /\ [][\A c \in Nodes : (c # RootNode /\ sendCount'[c] > sendCount[c]) =>
              /\ Len(work) < WorkListSize
              /\ work' = Append(work, c)
              /\ syncCount' = syncCount
              /\ Top'.ph = "inc"]_vars
    /\ [][(runPc = "work" /\ Top.ph = "inc") => pending' = pending + 1]_vars

C18_Witness ==
    /\ runPc = "work" /\ Len(stack) >= 2 /\ Top.ph = "open"
    /\ WorkListSize = 1 /\ Len(work) = 1
    /\ syncCount[Top.dn] = 1

\* the DirectoryNodes that were seeded or sent on the queue and whose
\* decrement has not been applied yet
Outstanding ==
    {d \in Nodes : /\ IF d = RootNode THEN seedPc # "idle" ELSE sendCount[d] >= 1
                   /\ d \notin decd}

\* no traversal step, nor the decrement that ends it, is under way
NoStepInProgress == runPc \notin {"work", "dec"}

\* C19 as stated: the counter is never negative and, whenever no traversal
\* step is in progress, equals the number of outstanding DirectoryNodes.
C19_CounterIsOutstanding ==
    /\ pending >= 0
    /\ NoStepInProgress => pending = Cardinality(Outstanding)

\* C19, amended: the counter is never negative; setup sets it to 1 before
\* the root is seeded, and it stays 1 when Run returns an error for the
\* root path; from the launch of the seeding goroutine on, whenever no
\* traversal step (with the decrement that ends it) is in progress, it equals
\* the number of outstanding DirectoryNodes; the default branch never
\* changes it.
C19_CounterAccounting ==
    /\ [](pending >= 0)
    /\ []((seedPc = "idle" /\ runPc # "setup") => pending = 1)
    /\ []((seedPc # "idle" /\ NoStepInProgress) =>
             pending = Cardinality(Outstanding))
    /\ [](\A d \in Nodes : syncCount[d] >= 1 => d \notin (incd \cup decd))
    /\ [][syncCount' # syncCount => pending' = pending]_vars

C19_Witness ==
    /\ runPc = "select" /\ seedPc = "done" /\ RootNode \in decd
    /\ pending = 1 /\ Len(work) = 1 /\ Outstanding = {work[1]}
    /\ \E d \in Nodes : syncCount[d] = 1

\* C20: when Run returns a tree the seeding goroutine has completed its send
\* and the queue is empty; the queue never holds more than WorkListSize
\* items.
C20_NothingLeftAtReturn ==
    /\ ReturnedTree => (seedPc = "done" /\ work = <<>>)
    /\ runPc # "setup" => (Len(work) <= WorkListSize /\ peakLen <= WorkListSize)

C20_Witness ==
    /\ ReturnedTree /\ seedPc = "done" /\ work = <<>>
    /\ WorkListSize = 1 /\ peakLen = 1
    /\ \E d \in Nodes : syncCount[d] = 1
    /\ \E d \in Nodes : d # RootNode /\ recvCount[d] = 1

====
